---- MODULE Spec2Model ----
(***************************************************************************)
(* A model of arbitrator/wasm-libraries/user-host/src/program.rs: the      *)
(* stack of active programs (PROGRAMS), the per-program request bridge     *)
(* (UserHostRequester), the process-wide request id counter                *)
(* (LAST_REQUEST_ID) and the page-granular memory access guard             *)
(* (Program::check_memory_access).                                         *)
(*                                                                         *)
(* A u32 is held as the pair <<page, off>> standing for                    *)
(* page * PAGE_SIZE + off, with 0 <= off < PAGE_SIZE and                    *)
(* 0 <= page < U32_PAGES: TLC's integers are narrower than a u32, and the  *)
(* pair keeps the full 32-bit range, so that saturation and wrap-around    *)
(* happen where they happen in the code.                                   *)
(***************************************************************************)
EXTENDS Integers, Sequences, FiniteSets, TLC

VARIABLES
    PROGRAMS,          \* static mut PROGRAMS: Vec<Box<Program>>
    LAST_REQUEST_ID,   \* static mut LAST_REQUEST_ID: u32
    memory_pages,      \* what hostio program_memory_size(module) answers
    calls,             \* send_request invocations blocked in program_request, outermost first
    panic,             \* the panic message that ended execution, or NoPanic
    pushed,            \* history: the Box<Program> allocations made, as pushed, in push order
    popped,            \* history: the boxes removed by pop
    issued,            \* history: the ids returned by set_request, in issue order
    last               \* history: the operation performed by the latest step

vars == <<PROGRAMS, LAST_REQUEST_ID, memory_pages, calls, panic,
          pushed, popped, issued, last>>

----------------------------------------------------------------------------
(* Bounds of the model. *)

\* Under Spec: most programs pushed in one behaviour (and so the deepest nesting)
MaxPrograms == 2
\* Under Spec: most ids issued by set_request in one behaviour (and so the most
\* send_request invocations blocked in program_request at once)
MaxRequests == 2
\* Under SpecRegistry: deepest nesting of active programs
MaxDepth == 2
\* Under SpecRegistry: most programs pushed in one behaviour
MaxPushes == 3
\* Under SpecRegistry: most requests sent in one behaviour
MaxSends == 1
\* Under SpecRegistry: longest output a program accumulates
MaxOuts == 1
\* Under SpecMemory: most programs pushed in one behaviour
MaxMemoryPrograms == 2

----------------------------------------------------------------------------
(* u32 arithmetic. *)

\* wavm::PAGE_SIZE, the WASM page size in bytes
PAGE_SIZE == 65536
\* number of PAGE_SIZE pages in the u32 range: 2^32 / PAGE_SIZE
U32_PAGES == 65536

U32(page, off) == <<page, off>>
U32_MAX == U32(U32_PAGES - 1, PAGE_SIZE - 1)
U32_ZERO == U32(0, 0)

\* a < b on u32
U32Lt(a, b) == a[1] < b[1] \/ (a[1] = b[1] /\ a[2] < b[2])

\* the exact (unbounded) sum a + b, as a pair whose page may reach past U32_PAGES
ExactSum(a, b) == <<a[1] + b[1] + ((a[2] + b[2]) \div PAGE_SIZE), (a[2] + b[2]) % PAGE_SIZE>>

\* a + b overflows the u32 range
Overflows(a, b) == ExactSum(a, b)[1] >= U32_PAGES

\* u32::saturating_add
saturating_add(a, b) == IF Overflows(a, b) THEN U32_MAX ELSE ExactSum(a, b)

\* u32 `+`, in a build without overflow checks
wrapping_add(a, b) == <<ExactSum(a, b)[1] % U32_PAGES, ExactSum(a, b)[2]>>

\* x / wavm::PAGE_SIZE
DivPageSize(x) == x[1]

----------------------------------------------------------------------------
(* Option<T>: None is the empty sequence, Some(v) the one-element sequence. *)

None == <<>>
Some(v) == <<v>>
IsSome(o) == Len(o) = 1
Unwrap(o) == o[1]

NoPanic == "none"

----------------------------------------------------------------------------
(* Inputs explored. *)

\* LAST_REQUEST_ID at the start of the observed behaviour: its initial value, its
\* value in a process that has already issued nearly 0x10000000 requests, and its
\* value in a process that has already issued nearly 2^32 requests
INITIAL_REQUEST_ID == U32(1, 0)
StartIds == {INITIAL_REQUEST_ID, U32(4095, PAGE_SIZE - 1), U32(U32_PAGES - 1, PAGE_SIZE - 2)}

Modules == {1, 2}
\* what push_new is called with: args, evm_data, module, config
\* the k-th push_new of a behaviour carries its own arguments
PushInput(k) ==
    [args |-> <<k, 2>>, evm_data |-> [return_data_len |-> 0], module |-> 1 + (k % 2),
     config |-> IF k % 2 = 0 THEN "a" ELSE "b"]
\* the EvmApiMethod discriminants the requests carry
Methods == {0, 7}
\* the k-th request of a behaviour carries its own method and data
RequestInput(k) == [method |-> 7 * (k % 2), data |-> <<k, 2>>]
\* what the host answers: data and gas
FirstResponse == [data |-> <<153>>, gas |-> 42]
ResponseInputs == { FirstResponse, [data |-> <<>>, gas |-> 7] }
\* what a read through a dangling reference may yield
DataSet == {r.data : r \in ResponseInputs}
GasSet == {r.gas : r \in ResponseInputs}
OutBytes == {8}
ReturnLens == {4}

\* ids the host may present: the ids issued so far, and 0, the id of a bridge never used
HostIds == {U32_ZERO} \cup {issued[i] : i \in 1..Len(issued)}

\* memory sizes in pages the host may report, up to the 4 GiB of a 32-bit memory
PageCounts == {0, 1, 2, U32_PAGES - 1, U32_PAGES}
\* pointers and lengths the guest may pass, around the page and u32 boundaries
Pointers == {U32(0, 0), U32(0, PAGE_SIZE - 2), U32(1, 0), U32(1, 1), U32(2, 0),
             U32(U32_PAGES - 1, 0), U32(U32_PAGES - 1, PAGE_SIZE - 20), U32_MAX}
Lengths == {U32(0, 0), U32(0, 1), U32(0, 2), U32(0, 3), U32(0, 10), U32(1, 0), U32_MAX}

----------------------------------------------------------------------------
(* UserHostRequester *)

\* UserHostRequester::default
default == [req_type |-> U32_ZERO, data |-> None, answer |-> None, id |-> U32_ZERO, gas |-> 0]

set_response_keeps_gas(self, req_id, data, gas) == [self EXCEPT !.answer = Some(data)]

\* set_response: the fields written (before the id is compared)
set_response(self, req_id, data, gas) == [self EXCEPT !.answer = Some(data), !.gas = gas]

set_response_never_panics(self, req_id) == FALSE

\* set_response: the id comparison that panics
set_response_panics(self, req_id) == req_id # self.id

\* LAST_REQUEST_ID += 1 overflows
counter_overflows(counter) == Overflows(counter, U32(0, 1))

\* LAST_REQUEST_ID += 1, where it does not panic
next_request_id(counter) == wrapping_add(counter, U32(0, 1))

\* set_request, given the incremented counter
set_request(self, new_id, req_type, data) ==
    [self EXCEPT !.id = new_id, !.req_type = req_type, !.data = Some(data), !.answer = None]

\* get_request: the id comparison that panics
get_request_panics(self, id) == self.id # id

send_request_never_panics(req_id, got_id) == FALSE

\* send_request: the comparison of program_request's result that panics
send_request_panics(req_id, got_id) == got_id # req_id

\* send_request: the bridge after self.answer.take()
take_answer(self) == [self EXCEPT !.answer = None]

\* handle_request: req_type as u32 + 0x10000000
REQUEST_KIND_OFFSET == U32(4096, 0)
request_kind(method) == wrapping_add(U32(0, method), REQUEST_KIND_OFFSET)

----------------------------------------------------------------------------
(* History records. *)

NoOp == [op |-> "init", self |-> 0, id |-> U32_ZERO, req_id |-> U32_ZERO,
         req_type |-> U32_ZERO, data |-> <<>>, gas |-> 0,
         ptr |-> U32_ZERO, bytes |-> U32_ZERO, pages |-> 0, ok |-> TRUE, raw |-> FALSE,
         before |-> default, got |-> [kind |-> "none", data |-> <<>>, gas |-> 0],
         program |-> <<>>, counter |-> U32_ZERO]

\* what reached a blocked call's bridge since its set_request: nothing, an accepted
\* set_response carrying the call's id (the latest one), another write of the
\* bridge, or the drop of the bridge with its program
NoEvent == [kind |-> "none", data |-> <<>>, gas |-> 0]
Answer(data, gas) == [kind |-> "answer", data |-> data, gas |-> gas]
OtherEvent == [kind |-> "other", data |-> <<>>, gas |-> 0]
DroppedEvent == [kind |-> "dropped", data |-> <<>>, gas |-> 0]

----------------------------------------------------------------------------
(* Program *)

\* index in PROGRAMS of the program held in box b, 0 when that box was dropped
IndexOfBox(b) ==
    IF \E i \in 1..Len(PROGRAMS) : PROGRAMS[i].box = b
    THEN CHOOSE i \in 1..Len(PROGRAMS) : PROGRAMS[i].box = b
    ELSE 0

current_is_first == IF PROGRAMS = <<>> THEN 0 ELSE 1

\* Program::current: PROGRAMS.last_mut()
current == Len(PROGRAMS)

pop_first(programs) == Tail(programs)

\* PROGRAMS.pop()
pop_programs(programs) == SubSeq(programs, 1, Len(programs) - 1)

memory_size_of_first(self) == memory_pages[PROGRAMS[1].module]

\* Program::memory_size: program_memory_size(self.module)
memory_size(self) == memory_pages[self.module]

check_memory_access_strict(self, ptr, bytes) ==
    LET last_page == DivPageSize(saturating_add(ptr, bytes))
    IN  ~(last_page >= memory_pages[self.module])

\* Program::check_memory_access: TRUE for Ok(()), FALSE for Err(MemoryBoundsError)
check_memory_access(self, ptr, bytes) ==
    LET last_page == DivPageSize(saturating_add(ptr, bytes))
    IN  ~(last_page > memory_size(self))

----------------------------------------------------------------------------
(* The state after the statics are constructed. *)

Init ==
    /\ PROGRAMS = <<>>
    /\ LAST_REQUEST_ID \in StartIds
    /\ memory_pages \in [Modules -> {1}]
    /\ calls = <<>>
    /\ panic = NoPanic
    /\ pushed = <<>>
    /\ popped = {}
    /\ issued = <<>>
    /\ last = NoOp

Running == panic = NoPanic

Panics_swallowed(message, op) ==
    /\ panic' = NoPanic
    /\ last' = op
    /\ UNCHANGED <<PROGRAMS, LAST_REQUEST_ID, memory_pages, calls,
                   pushed, popped, issued>>

\* a panic: execution ends with the message, nothing else changes
Panics(message, op) ==
    /\ panic' = message
    /\ last' = op
    /\ UNCHANGED <<PROGRAMS, LAST_REQUEST_ID, memory_pages, calls,
                   pushed, popped, issued>>

----------------------------------------------------------------------------
(* Program registry *)

\* Program::push_new(args, evm_data, module, config)
push_new(args, evm_data, module, config) ==
    /\ Running
    /\ LET program == [box |-> Len(pushed) + 1,
                       args |-> args,
                       outs |-> <<>>,
                       evm_api |-> default,
                       evm_data |-> evm_data,
                       module |-> module,
                       config |-> config]
       IN  /\ PROGRAMS' = Append(PROGRAMS, program)
           /\ pushed' = Append(pushed, program)
           /\ last' = [NoOp EXCEPT !.op = "push_new", !.self = program.box]
    /\ UNCHANGED <<LAST_REQUEST_ID, memory_pages, calls, panic,
                   popped, issued>>

\* Program::pop()
pop ==
    /\ Running
    /\ IF PROGRAMS = <<>>
       THEN Panics("no program", [NoOp EXCEPT !.op = "pop", !.ok = FALSE])
       ELSE /\ PROGRAMS' = pop_programs(PROGRAMS)
            /\ popped' = popped \cup {b \in 1..Len(pushed) :
                              /\ \E i \in 1..Len(PROGRAMS) : PROGRAMS[i].box = b
                              /\ \A i \in 1..Len(PROGRAMS') : PROGRAMS'[i].box # b}
            \* a call still blocked on a dropped bridge no longer has one
            /\ calls' = [c \in 1..Len(calls) |->
                           IF \A i \in 1..Len(PROGRAMS') : PROGRAMS'[i].box # calls[c].self
                           THEN [calls[c] EXCEPT !.got = DroppedEvent]
                           ELSE calls[c]]
            /\ last' = [NoOp EXCEPT !.op = "pop", !.self = PROGRAMS[Len(PROGRAMS)].box,
                                    !.program = Some(PROGRAMS[Len(PROGRAMS)])]
            /\ UNCHANGED <<LAST_REQUEST_ID, memory_pages, panic,
                           pushed, issued>>

\* Program::current()
Current ==
    /\ Running
    /\ IF PROGRAMS = <<>>
       THEN Panics("no program", [NoOp EXCEPT !.op = "current", !.ok = FALSE])
       ELSE /\ last' = [NoOp EXCEPT !.op = "current", !.self = PROGRAMS[current].box,
                                    !.program = Some(PROGRAMS[current])]
            /\ UNCHANGED <<PROGRAMS, LAST_REQUEST_ID, memory_pages, calls,
                           panic, pushed, popped, issued>>

----------------------------------------------------------------------------
(* impl UserHost for Program: the accessors, used on Program::current() *)

\* outs(): the output is appended to
outs(byte) ==
    /\ Running
    /\ PROGRAMS # <<>>
    /\ PROGRAMS' = [PROGRAMS EXCEPT ![current].outs = Append(@, byte)]
    /\ last' = [NoOp EXCEPT !.op = "outs", !.self = PROGRAMS[current].box]
    /\ UNCHANGED <<LAST_REQUEST_ID, memory_pages, calls, panic,
                   pushed, popped, issued>>

\* evm_return_data_len(): the expected return-data length is written
evm_return_data_len(len) ==
    /\ Running
    /\ PROGRAMS # <<>>
    /\ PROGRAMS' = [PROGRAMS EXCEPT ![current].evm_data.return_data_len = len]
    /\ last' = [NoOp EXCEPT !.op = "evm_return_data_len", !.self = PROGRAMS[current].box]
    /\ UNCHANGED <<LAST_REQUEST_ID, memory_pages, calls, panic,
                   pushed, popped, issued>>

----------------------------------------------------------------------------
(* UserHostRequester: the request bridge of a program *)

\* the blocked calls, after set_request wrote the bridge of box b
ObserveRequest(b) ==
    [c \in 1..Len(calls) |->
        IF calls[c].self = b THEN [calls[c] EXCEPT !.got = OtherEvent] ELSE calls[c]]

\* the blocked calls, after an accepted set_response(req_id, data, gas) on the bridge of box b
ObserveResponse(b, req_id, data, gas) ==
    [c \in 1..Len(calls) |->
        IF calls[c].self = b
        THEN [calls[c] EXCEPT !.got = IF calls[c].req_id = req_id
                                      THEN Answer(data, gas)
                                      ELSE OtherEvent]
        ELSE calls[c]]

\* send_request up to the moment program_request(req_id) is entered:
\* set_request, then the opaque call
send_request(req_type, data) ==
    /\ Running
    /\ PROGRAMS # <<>>
    /\ LET self == PROGRAMS[current].evm_api
           box == PROGRAMS[current].box
           op == [NoOp EXCEPT !.op = "set_request", !.self = box, !.req_type = req_type,
                              !.data = data, !.before = self,
                              !.counter = LAST_REQUEST_ID]
       IN  \/ \* `+=` panics on overflow in a build with overflow checks
              /\ counter_overflows(LAST_REQUEST_ID)
              /\ Panics("attempt to add with overflow", [op EXCEPT !.ok = FALSE])
           \/ \* and wraps in a build without them
              LET new_id == next_request_id(LAST_REQUEST_ID)
              IN  /\ LAST_REQUEST_ID' = new_id
                  /\ PROGRAMS' = [PROGRAMS EXCEPT
                                    ![current].evm_api = set_request(self, new_id, req_type, data)]
                  /\ calls' = Append(ObserveRequest(box),
                                     [self |-> box, req_id |-> PROGRAMS'[current].evm_api.id,
                                      got |-> NoEvent])
                  /\ issued' = Append(issued, PROGRAMS'[current].evm_api.id)
                  /\ last' = [op EXCEPT !.id = PROGRAMS'[current].evm_api.id]
                  /\ UNCHANGED <<memory_pages, panic, pushed, popped>>

\* RequestHandler::handle_request(req_type, req_data)
handle_request(method, req_data) == send_request(request_kind(method), req_data)

\* the host calls set_response(req_id, data, gas) on the bridge of PROGRAMS[i]
host_set_response(i, req_id, data, gas) ==
    /\ Running
    /\ i \in 1..Len(PROGRAMS)
    /\ LET self == PROGRAMS[i].evm_api
           box == PROGRAMS[i].box
       IN  /\ PROGRAMS' = [PROGRAMS EXCEPT ![i].evm_api = set_response(self, req_id, data, gas)]
           /\ panic' = IF set_response_panics(self, req_id)
                       THEN "bad req id returning from send_request"
                       ELSE NoPanic
           /\ calls' = IF set_response_panics(self, req_id) THEN calls
                       ELSE ObserveResponse(box, req_id, data, gas)
           /\ last' = [NoOp EXCEPT !.op = "set_response", !.self = box, !.req_id = req_id,
                                   !.data = data, !.gas = gas, !.before = self,
                                   !.ok = ~set_response_panics(self, req_id)]
    /\ UNCHANGED <<LAST_REQUEST_ID, memory_pages, pushed, popped, issued>>

\* the host calls get_request(id) on the bridge of PROGRAMS[i]
host_get_request(i, id) ==
    /\ Running
    /\ i \in 1..Len(PROGRAMS)
    /\ LET self == PROGRAMS[i].evm_api
           op == [NoOp EXCEPT !.op = "get_request", !.self = PROGRAMS[i].box, !.id = id,
                              !.before = self]
       IN  IF get_request_panics(self, id)
           THEN Panics("get_request got wrong id", [op EXCEPT !.ok = FALSE])
           ELSE IF ~IsSome(self.data)
           THEN Panics("called Option::unwrap() on a None value", [op EXCEPT !.ok = FALSE])
           ELSE /\ last' = [op EXCEPT !.req_type = self.req_type, !.data = Unwrap(self.data)]
                /\ UNCHANGED <<PROGRAMS, LAST_REQUEST_ID, memory_pages, calls,
                               panic, pushed, popped, issued>>

\* program_request returns got_id to the innermost blocked send_request, which
\* compares the ids and takes the answer
program_request_returns(got_id) ==
    /\ Running
    /\ calls # <<>>
    /\ LET call == calls[Len(calls)]
           i == IndexOfBox(call.self)
           op == [NoOp EXCEPT !.op = "send_request", !.self = call.self, !.id = got_id,
                              !.req_id = call.req_id, !.got = call.got]
       IN  IF send_request_panics(call.req_id, got_id)
           THEN Panics("bad req id returning from send_request", [op EXCEPT !.ok = FALSE])
           ELSE IF i = 0
           THEN \* self dangles: its Box was dropped by pop. The read of self.answer and
                \* self.gas is undefined: it panics or yields whatever the memory holds.
                \/ Panics("called Option::unwrap() on a None value", [op EXCEPT !.ok = FALSE])
                \/ \E data \in DataSet, gas \in GasSet :
                     /\ last' = [op EXCEPT !.data = data, !.gas = gas]
                     /\ calls' = SubSeq(calls, 1, Len(calls) - 1)
                     /\ UNCHANGED <<PROGRAMS, LAST_REQUEST_ID, memory_pages,
                                    panic, pushed, popped, issued>>
           ELSE LET self == PROGRAMS[i].evm_api
                IN  IF ~IsSome(self.answer)
                    THEN Panics("called Option::unwrap() on a None value",
                                [op EXCEPT !.ok = FALSE, !.before = self])
                    ELSE /\ last' = [op EXCEPT !.data = Unwrap(self.answer), !.gas = self.gas,
                                               !.before = self]
                         /\ PROGRAMS' = [PROGRAMS EXCEPT ![i].evm_api = take_answer(self)]
                         /\ calls' = SubSeq(calls, 1, Len(calls) - 1)
                         /\ UNCHANGED <<LAST_REQUEST_ID, memory_pages,
                                        panic, pushed, popped, issued>>

----------------------------------------------------------------------------
(* The request protocol: programs are pushed and popped, the current program *)
(* sends requests, and the host answers, asks and returns as it pleases.      *)

Next ==
    \/ /\ Len(pushed) < MaxPrograms
       /\ \E p \in {PushInput(Len(pushed) + 1)} : push_new(p.args, p.evm_data, p.module, p.config)
    \/ pop
    \/ /\ Len(issued) < MaxRequests
       /\ \E r \in {RequestInput(Len(issued) + 1)} : handle_request(r.method, r.data)
    \/ \E i \in 1..Len(PROGRAMS), req_id \in HostIds, a \in ResponseInputs :
          host_set_response(i, req_id, a.data, a.gas)
    \/ \E i \in 1..Len(PROGRAMS), id \in HostIds : host_get_request(i, id)
    \/ \E got_id \in HostIds : program_request_returns(got_id)

Spec == Init /\ [][Next]_vars

----------------------------------------------------------------------------
(* The registry: nested programs run, accumulate output and send requests,  *)
(* which the host answers once, with the id it was given.                   *)

NextRegistry ==
    \/ /\ Len(PROGRAMS) < MaxDepth
       /\ Len(pushed) < MaxPushes
       /\ \E p \in {PushInput(Len(pushed) + 1)} : push_new(p.args, p.evm_data, p.module, p.config)
    \/ pop
    \/ Current
    \/ /\ PROGRAMS # <<>>
       /\ Len(PROGRAMS[current].outs) < MaxOuts
       /\ \E byte \in OutBytes : outs(byte)
    \/ \E len \in ReturnLens : evm_return_data_len(len)
    \/ /\ Len(issued) < MaxSends
       /\ \E r \in {RequestInput(Len(issued) + 1)} : handle_request(r.method, r.data)
    \/ /\ calls # <<>>
       /\ calls[Len(calls)].got = NoEvent
       /\ \E a \in {FirstResponse} :
             host_set_response(IndexOfBox(calls[Len(calls)].self), calls[Len(calls)].req_id,
                               a.data, a.gas)
    \/ /\ calls # <<>>
       /\ program_request_returns(calls[Len(calls)].req_id)

SpecRegistry == Init /\ [][NextRegistry]_vars

----------------------------------------------------------------------------
(* impl UserHost for Program: the memory operations, used on               *)
(* Program::current(). Each consults check_memory_access and only then     *)
(* performs the raw wavm access.                                           *)

memory_access(name, ptr, bytes) ==
    /\ Running
    /\ PROGRAMS # <<>>
    /\ LET self == PROGRAMS[current]
           ok == check_memory_access(self, ptr, bytes)
       IN  last' = [NoOp EXCEPT !.op = name, !.self = self.box, !.ptr = ptr, !.bytes = bytes,
                                !.pages = memory_size(self), !.ok = ok, !.raw = ok]
    /\ UNCHANGED <<PROGRAMS, LAST_REQUEST_ID, memory_pages, calls, panic,
                   pushed, popped, issued>>

\* the memory of a module grows: program_memory_size(module) answers more from now on
program_memory_grows(module) ==
    /\ Running
    /\ \E pages \in PageCounts :
          /\ pages > memory_pages[module]
          /\ memory_pages' = [memory_pages EXCEPT ![module] = pages]
    /\ last' = [NoOp EXCEPT !.op = "memory_grow"]
    /\ UNCHANGED <<PROGRAMS, LAST_REQUEST_ID, calls, panic, pushed, popped, issued>>

read_bytes20(ptr) == memory_access("read_bytes20", ptr, U32(0, 20))
read_bytes32(ptr) == memory_access("read_bytes32", ptr, U32(0, 32))
read_slice(ptr, len) == memory_access("read_slice", ptr, len)
write_u32(ptr) == memory_access("write_u32", ptr, U32(0, 4))
write_bytes20(ptr) == memory_access("write_bytes20", ptr, U32(0, 20))
write_bytes32(ptr) == memory_access("write_bytes32", ptr, U32(0, 32))
\* src.len() as u32 is the length checked
write_slice(ptr, src_len) == memory_access("write_slice", ptr, src_len)

MemoryOps == {"read_bytes20", "read_bytes32", "read_slice", "write_u32",
              "write_bytes20", "write_bytes32", "write_slice"}

InitMemory ==
    /\ PROGRAMS = <<>>
    /\ LAST_REQUEST_ID = INITIAL_REQUEST_ID
    /\ memory_pages \in [Modules -> PageCounts]
    /\ calls = <<>>
    /\ panic = NoPanic
    /\ pushed = <<>>
    /\ popped = {}
    /\ issued = <<>>
    /\ last = NoOp

NextMemory ==
    \/ /\ Len(pushed) < MaxMemoryPrograms
       /\ \E p \in {PushInput(Len(pushed) + 1)} : push_new(p.args, p.evm_data, p.module, p.config)
    \/ /\ PROGRAMS # <<>>
       /\ pop
    \/ \E module \in Modules : program_memory_grows(module)
    \/ \E ptr \in Pointers : read_bytes20(ptr)
    \/ \E ptr \in Pointers : read_bytes32(ptr)
    \/ \E ptr \in Pointers, len \in Lengths : read_slice(ptr, len)
    \/ \E ptr \in Pointers : write_u32(ptr)
    \/ \E ptr \in Pointers : write_bytes20(ptr)
    \/ \E ptr \in Pointers : write_bytes32(ptr)
    \/ \E ptr \in Pointers, len \in Lengths : write_slice(ptr, len)

SpecMemory == InitMemory /\ [][NextMemory]_vars

----------------------------------------------------------------------------
(* The request bridge, under Spec. *)

\* C1: a call whose bridge last received an accepted set_response carrying the
\* call's own id returns exactly the data and gas of that set_response and leaves
\* the bridge without an answer; no call returns without anything having reached
\* its bridge since its set_request; and the id of a later request on a bridge
\* differs from the id of the request before it.
C1_CallReturnsDeliveredAnswer ==
    /\ (last.op = "send_request" /\ last.ok /\ last.got.kind = "answer") =>
          /\ last.data = last.got.data
          /\ last.gas = last.got.gas
          /\ IndexOfBox(last.self) # 0
          /\ PROGRAMS[IndexOfBox(last.self)].evm_api.answer = None
    /\ (last.op = "send_request" /\ last.ok) => last.got.kind # "none"
    /\ (last.op = "set_request" /\ last.ok /\ IsSome(last.before.data)) =>
          last.id # last.before.id

\* the second of two successive calls of one program has returned its own answer
C1_Witness ==
    /\ last.op = "send_request" /\ last.ok /\ last.got.kind = "answer"
    /\ Len(pushed) = 1 /\ PROGRAMS # <<>>
    /\ Len(issued) = 2 /\ last.req_id = issued[2] /\ calls = <<>>
    /\ last.data = <<>> /\ last.gas = 7

\* C2: a set_response whose id differs from the id the bridge holds panics, in
\* every state of the bridge, and no step is taken after a panic.
C2_MismatchedCompleteIsFatal ==
    /\ [](last.op = "set_response" /\ last.req_id # last.before.id => panic # NoPanic)
    /\ [][panic = NoPanic]_vars

\* a set_response with a foreign id reached a bridge whose request was pending
C2_Witness ==
    /\ last.op = "set_response" /\ last.req_id # last.before.id
    /\ IsSome(last.before.data) /\ last.before.answer = None
    /\ panic = "bad req id returning from send_request"

\* C7: the ids set_request returns are strictly increasing in issue order (and so
\* never repeat), also when LAST_REQUEST_ID reaches the largest u32.
C7_IdsStrictlyIncreasing ==
    \A i, j \in 1..Len(issued) : i < j => U32Lt(issued[i], issued[j])

\* C8: when program_request returns an id other than the one sent, send_request
\* panics and returns nothing, whatever was delivered meanwhile.
C8_ReturnedIdMismatchIsFatal ==
    (last.op = "send_request" /\ last.id # last.req_id) =>
        /\ ~last.ok
        /\ panic = "bad req id returning from send_request"
        /\ calls # <<>> /\ calls[Len(calls)].req_id = last.req_id

\* program_request returned a foreign id after the right answer had been delivered
C8_Witness ==
    /\ last.op = "send_request" /\ last.id # last.req_id
    /\ last.got.kind = "answer"
    /\ panic # NoPanic

----------------------------------------------------------------------------
(* The registry, under SpecRegistry. *)

C10_NestedInstancesIsolated ==
    [][ /\ last'.op \in {"outs", "evm_return_data_len", "set_request", "current"} =>
             \A i \in 1..(Len(PROGRAMS) - 1) :
                 i <= Len(PROGRAMS') /\ PROGRAMS'[i] = PROGRAMS[i]
        /\ (/\ last'.op \in {"set_response", "send_request"}
            /\ PROGRAMS # <<>>
            /\ last'.self = PROGRAMS[Len(PROGRAMS)].box) =>
             \A i \in 1..(Len(PROGRAMS) - 1) :
                 i <= Len(PROGRAMS') /\ PROGRAMS'[i] = PROGRAMS[i]
        /\ last'.op = "push_new" =>
             /\ Len(PROGRAMS') = Len(PROGRAMS) + 1
             /\ \A i \in 1..Len(PROGRAMS) : PROGRAMS'[i] = PROGRAMS[i]
        /\ (last'.op = "pop" /\ last'.ok) =>
             /\ Len(PROGRAMS') = Len(PROGRAMS) - 1
             /\ \A i \in 1..Len(PROGRAMS') : PROGRAMS'[i] = PROGRAMS[i]
      ]_vars

\* the nested program was popped after it appended output, wrote its expected
\* return-data length and completed a request, and the program below is untouched
C10_Witness ==
    /\ last.op = "pop" /\ last.ok
    /\ Unwrap(last.program).box = 2
    /\ Unwrap(last.program).outs # <<>>
    /\ Unwrap(last.program).evm_data.return_data_len = 4
    /\ IsSome(Unwrap(last.program).evm_api.data)
    /\ Unwrap(last.program).evm_api.answer = None
    /\ Unwrap(last.program).evm_api.gas = 42
    /\ calls = <<>>
    /\ Len(PROGRAMS) = 1
    /\ PROGRAMS[1] = pushed[1]

----------------------------------------------------------------------------
(* The memory access guard, under SpecMemory. *)

\* the exact sum ptr + bytes of the latest memory operation
LastEnd == ExactSum(last.ptr, last.bytes)

\* C3: a memory operation that succeeds lies within the memory: ptr + bytes <=
\* pages * PAGE_SIZE; with one page, read_slice(0, 3) succeeds and
\* read_slice(65534, 10) fails.
C3_NoAccessEscapesMemory ==
    /\ (last.op \in MemoryOps /\ last.ok) =>
          \/ LastEnd[1] < last.pages
          \/ LastEnd[1] = last.pages /\ LastEnd[2] = 0
    /\ (/\ last.op = "read_slice" /\ last.pages = 1
        /\ last.ptr = U32(0, 0) /\ last.bytes = U32(0, 3)) => last.ok
    /\ (/\ last.op = "read_slice" /\ last.pages = 1
        /\ last.ptr = U32(0, PAGE_SIZE - 2) /\ last.bytes = U32(0, 10)) => ~last.ok

\* C4: check_memory_access accepts exactly when ceil_div(ptr + bytes, PAGE_SIZE) <= pages.
C4_AcceptsIffCeilDivWithinPages ==
    last.op \in MemoryOps =>
        (last.ok <=> LastEnd[1] + (IF LastEnd[2] > 0 THEN 1 ELSE 0) <= last.pages)

C6_OverflowingSumRejected ==
    (last.op \in MemoryOps /\ Overflows(last.ptr, last.bytes) /\ last.pages <= U32_PAGES) =>
        ~last.ok

----------------------------------------------------------------------------
(* The registry when it is empty, under SpecRegistry. *)

\* C11: pop() and current() panic with "no program" exactly when PROGRAMS is
\* empty (before any push, or after every pushed program was popped) and succeed
\* whenever it is not; push_new never panics and always adds a program.
C11_EmptyRegistryIsFatal ==
    [][ /\ last'.op \in {"pop", "current"} =>
             /\ (PROGRAMS = <<>>) <=> (panic' = "no program")
             /\ (PROGRAMS # <<>>) <=> (last'.ok /\ panic' = NoPanic)
        /\ last'.op = "push_new" =>
             /\ panic' = NoPanic /\ last'.ok
             /\ Len(PROGRAMS') = Len(PROGRAMS) + 1
      ]_vars

\* pop() panicked on a registry emptied by pops
C11_Witness ==
    /\ last.op = "pop" /\ ~last.ok
    /\ panic = "no program"
    /\ Len(pushed) = 2 /\ popped = {1, 2} /\ PROGRAMS = <<>>

----------------------------------------------------------------------------
(* The life of a request on a bridge, under Spec. *)

\* the send_request invocations blocked in program_request on the bridge of box b
BlockedOn(b) == {c \in 1..Len(calls) : calls[c].self = b}

\* C12: a set_response reaching a bridge that is Idle (no call is blocked on it
\* and it holds no answer: begin was never called on it, or its last answer was
\* taken by the call) panics, whatever id it carries, the bridge's own id included.
C12_IdleCompleteRejected ==
    (/\ last.op = "set_response"
     /\ BlockedOn(last.self) = {}
     /\ last.before.answer = None) => (~last.ok /\ panic # NoPanic)

\* C13: a bridge moves Idle -> Pending by set_request, Pending -> Answered by one
\* set_response with the pending id, Answered -> Idle by the call taking the answer,
\* and in no other way: a bridge a call is blocked on accepts a set_response only
\* while it holds no answer yet (never a second one), a set_request only starts on
\* a bridge no call is blocked on, and no bridge ever has two calls blocked on it.
C13_LifecycleOnly ==
    /\ (last.op = "set_response" /\ last.ok /\ BlockedOn(last.self) # {}) =>
          last.before.answer = None
    /\ (last.op = "set_request" /\ last.ok) => BlockedOn(last.self) = {Len(calls)}
    /\ \A b \in 1..Len(pushed) : Cardinality(BlockedOn(b)) <= 1

\* C14: set_request never fails and, whatever the bridge held, returns
\* LAST_REQUEST_ID + 1 and leaves the bridge with that id, the given req_type and
\* data and no answer; after it, get_request with the bridge's id returns that
\* req_type and data, and get_request with any other id panics.
C14_BeginRecordsRequest ==
    /\ last.op = "set_request" =>
          /\ last.ok /\ panic = NoPanic
          /\ last.id = ExactSum(last.counter, U32(0, 1))
          /\ LAST_REQUEST_ID = last.id
          /\ IndexOfBox(last.self) # 0
          /\ PROGRAMS[IndexOfBox(last.self)].evm_api =
                [last.before EXCEPT !.id = last.id, !.req_type = last.req_type,
                                    !.data = Some(last.data), !.answer = None]
    /\ (last.op = "get_request" /\ IsSome(last.before.data)) =>
          IF last.id = last.before.id
          THEN /\ last.ok /\ panic = NoPanic
               /\ last.req_type = last.before.req_type
               /\ last.data = Unwrap(last.before.data)
          ELSE ~last.ok /\ panic = "get_request got wrong id"

\* C15: every req_type handle_request sends is its method + 0x10000000, every id
\* set_request issues is greater than 0x10000, and no id issued equals the
\* req_type of any method, however many requests were issued before.
C15_IdSpacesDisjoint ==
    /\ (last.op = "set_request" /\ last.ok) =>
          /\ RequestInput(Len(issued)).method \in Methods
          /\ last.req_type =
                ExactSum(U32(0, RequestInput(Len(issued)).method), REQUEST_KIND_OFFSET)
    /\ \A k \in 1..Len(issued) : U32Lt(INITIAL_REQUEST_ID, issued[k])
    /\ \A k \in 1..Len(issued), method \in Methods : issued[k] # request_kind(method)

----------------------------------------------------------------------------
(* The memory operations and the guard, under SpecMemory. *)

\* the length a memory operation has to check, NoLength where its caller gives it
NoLength == <<>>
FixedLength(op) ==
    CASE op \in {"read_bytes20", "write_bytes20"} -> U32(0, 20)
      [] op \in {"read_bytes32", "write_bytes32"} -> U32(0, 32)
      [] op = "write_u32" -> U32(0, 4)
      [] OTHER -> NoLength

\* C16: every memory operation consults check_memory_access on the current
\* program with that program's own memory size at that moment and with exactly the
\* number of bytes it is about to access; when the guard rejects, the operation
\* returns the error without a raw access and without a panic, and PROGRAMS, the
\* arguments, outputs and bridges in it, LAST_REQUEST_ID and the blocked calls are
\* what they were, so that the operations after it run as usual.
C16_GuardBeforeEveryAccess ==
    [][ last'.op \in MemoryOps =>
          /\ PROGRAMS # <<>>
          /\ last'.self = PROGRAMS[Len(PROGRAMS)].box
          /\ last'.pages = memory_pages[PROGRAMS[Len(PROGRAMS)].module]
          /\ FixedLength(last'.op) # NoLength => last'.bytes = FixedLength(last'.op)
          /\ last'.ok <=>
                (IF Overflows(last'.ptr, last'.bytes) THEN U32_PAGES - 1
                 ELSE ExactSum(last'.ptr, last'.bytes)[1]) <= last'.pages
          /\ last'.raw <=> last'.ok
          /\ panic' = NoPanic
          /\ UNCHANGED <<PROGRAMS, LAST_REQUEST_ID, memory_pages, calls, panic,
                         pushed, popped, issued>>
      ]_vars

\* a nested program's write was rejected against its own one-page memory, though
\* it would fit the two pages of the program below it
C16_Witness ==
    /\ last.op = "write_slice" /\ ~last.ok /\ ~last.raw
    /\ Len(PROGRAMS) = 2 /\ last.self = PROGRAMS[2].box
    /\ last.pages = 1 /\ memory_pages[PROGRAMS[1].module] = 2
    /\ ExactSum(last.ptr, last.bytes) = <<2, 0>>
    /\ panic = NoPanic

----------------------------------------------------------------------------
(* Requests of nested programs, under Spec. *)

\* C17: while a request of a program is pending, the host may push a nested
\* program, let it send requests and pop it before it answers: a set_response
\* carrying the id that another program's bridge holds for a request of its own
\* panics on whichever bridge it is delivered to, and a call that returns after
\* an accepted set_response with its own id returns exactly that data and gas.
C17_NestedRequestsKeptApart ==
    /\ (/\ last.op = "set_response"
        /\ \E j \in 1..Len(PROGRAMS) :
              /\ PROGRAMS[j].box # last.self
              /\ IsSome(PROGRAMS[j].evm_api.data)
              /\ PROGRAMS[j].evm_api.id = last.req_id) => (~last.ok /\ panic # NoPanic)
    /\ (last.op = "send_request" /\ last.ok /\ last.got.kind = "answer") =>
          (last.data = last.got.data /\ last.gas = last.got.gas)

----------------------------------------------------------------------------
(* A blocked call and the program that owns it, under Spec. *)

\* C18: a call stays blocked until program_request returns; when the host has
\* answered with the call's id and program_request returns that id, the call
\* returns and leaves its bridge without an answer and without this call; and a
\* call returns normally only if a set_response was accepted on its bridge since
\* its set_request.
C18_CallReturnsOnlyAfterComplete ==
    /\ (last.op = "send_request" /\ last.id = last.req_id /\ last.got.kind = "answer") =>
          /\ last.ok /\ panic = NoPanic
          /\ IndexOfBox(last.self) # 0
          /\ PROGRAMS[IndexOfBox(last.self)].evm_api.answer = None
          /\ \A c \in BlockedOn(last.self) : calls[c].req_id # last.req_id
    /\ (last.op = "send_request" /\ last.ok) => last.got.kind \in {"answer", "other"}
    /\ (last.op = "send_request" /\ last.ok /\ last.got.kind = "other") =>
          IsSome(last.before.answer)

\* C19: pop never removes a program while a send_request on its bridge is
\* blocked in program_request.
C19_NoRequestOutlivesInstance ==
    (last.op = "pop" /\ last.ok) => BlockedOn(last.self) = {}

\* C20: a set_response that panics because its id is not the bridge's leaves the
\* answer and the gas of the bridge as they were before it.
C20_RejectedCompleteWritesNothing ==
    (last.op = "set_response" /\ ~last.ok) =>
        /\ IndexOfBox(last.self) # 0
        /\ PROGRAMS[IndexOfBox(last.self)].evm_api.answer = last.before.answer
        /\ PROGRAMS[IndexOfBox(last.self)].evm_api.gas = last.before.gas

====
